---- MODULE Spec2Model ----
(***************************************************************************)
(* A model of the fixed-size LRU cache (src/src/lrucache.rs) and of the    *)
(* request handler that serves images through it (src/src/serve.rs).       *)
(*                                                                         *)
(* The cache is one record: table (HashMap<K, usize>), entries (the        *)
(* arena, Vec<CacheEntry>), first, last and capacity.  Rust's arena index   *)
(* i is position i + 1 of the TLA+ sequence.  Option<usize> and Option<V>  *)
(* are an integer, None being -1.                                          *)
(***************************************************************************)
EXTENDS Integers, Sequences, FiniteSets, TLC

\* ------------------------------------------------------------- bounds

\* Number of distinct keys the callers use.
NumKeys == 3
\* Number of distinct values (image contents) the callers store.
NumVals == 2
\* Largest capacity a cache is built with.
MaxCap == 2
\* The arena is append-only: inserts of new keys stop at this length.
MaxEntries == 4
\* Number of concurrent request handlers.
NumReqs == 2
\* Total number of requests issued in one run.
MaxRequests == 3

Keys == 1..NumKeys
Vals == 1..NumVals
Caps == 0..MaxCap
Reqs == 1..NumReqs

\* Option::None, for Option<usize> and Option<V>.
None == -1

VARIABLES
  cache,      \* the LRUCache
  panicked,   \* a call on the cache has panicked
  recency,    \* history: keys by latest insert/get/get_mut, most recent first
  latest,     \* history: per key in the cache, the value last written under it
  pc,         \* serve_image: where each request handler is
  rkey,       \* serve_image: the derivation key of each request (requested_fp)
  contents,   \* serve_image: the bytes a request has read from disk
  response,   \* serve_image: what a finished request returned
  lock,       \* the Mutex around the cache: its holder, or None
  held,       \* history: the cache as it was when the lock was acquired
  computes,   \* history: per key, how often the compute step has run
  failed,     \* history: the keys whose compute step has failed
  stored,     \* history: per key, the contents last stored by a request
  requested,  \* history: the keys requested so far
  issued      \* number of requests issued so far

engineVars == <<cache, panicked, recency, latest>>
serveVars == <<pc, rkey, contents, response, lock, held, computes, failed, stored,
               requested, issued>>
vars == <<cache, panicked, recency, latest, pc, rkey, contents, response, lock,
          held, computes, failed, stored, requested, issued>>

\* ------------------------------------------------------ the cache engine

\* HashMap::remove on table.
TableRemove(t, key) == [x \in DOMAIN t \ {key} |-> t[x]]

\* HashMap::insert on table.
TableInsert(t, key, idx) == [x \in DOMAIN t \cup {key} |-> IF x = key THEN idx ELSE t[x]]

\* LRUCache::new
new(cap) ==
  [table |-> [x \in {} |-> 0], entries |-> <<>>, first |-> None, last |-> None,
   capacity |-> cap]

\* LRUCache::len
len(c) == Cardinality(DOMAIN c.table)

\* LRUCache::is_empty
is_empty(c) == DOMAIN c.table = {}

\* LRUCache::is_full
is_full(c) == len(c) = c.capacity

\* LRUCache::contains_key
contains_key(c, key) == key \in DOMAIN c.table

\* remove_from_list with a slip: unlinking the tail does not move `last`.
remove_from_list_keeps_last(c, i) ==
  LET prev == c.entries[i + 1].prev
      next == c.entries[i + 1].next
  IN  IF prev # None /\ next # None
      THEN LET e1 == [c.entries EXCEPT ![prev + 1].next = next]
               e2 == [e1 EXCEPT ![next + 1].prev = prev]
           IN  [c EXCEPT !.entries = e2]
      ELSE IF prev # None /\ next = None
      THEN [c EXCEPT !.entries[prev + 1].next = None]
      ELSE c

\* LRUCache::remove_from_list
remove_from_list(c, i) ==
  LET prev == c.entries[i + 1].prev
      next == c.entries[i + 1].next
  IN  IF prev # None /\ next # None
      THEN \* item was in the middle of the list
           LET e1 == [c.entries EXCEPT ![prev + 1].next = next]
               e2 == [e1 EXCEPT ![next + 1].prev = prev]
           IN  [c EXCEPT !.entries = e2]
      ELSE IF prev # None /\ next = None
      THEN \* item was at the end of the list
           [c EXCEPT !.entries[prev + 1].next = None, !.last = prev]
      ELSE \* item was at front
           c

\* LRUCache::remove_last
remove_last(c) ==
  LET c1 == IF c.last # None
            THEN LET idx == c.last
                     c0 == remove_from_list(c, idx)
                     key == c0.entries[idx + 1].key
                 IN  [c0 EXCEPT !.table = TableRemove(@, key)]
            ELSE c
  IN  IF c1.last = None THEN [c1 EXCEPT !.first = None] ELSE c1

\* ensure_room with a slip: it makes room whatever the length.
ensure_room_always(c) == remove_last(c)

\* ensure_room with a slip: it makes room one entry too early.
ensure_room_early(c) == IF c.capacity <= len(c) + 1 THEN remove_last(c) ELSE c

\* LRUCache::ensure_room
ensure_room(c) == IF c.capacity = len(c) THEN remove_last(c) ELSE c

\* access with a slip: the entry is unlinked but `first` is not set to it.
access_no_promote(c, key) ==
  LET i == c.table[key]
  IN  remove_from_list(c, i)

\* LRUCache::access
access(c, key) ==
  LET i == c.table[key]
      c1 == remove_from_list(c, i)
  IN  [c1 EXCEPT !.first = i]

\* insert with a slip: room is made after the new entry is stored, not before.
insert_room_after(c, key, value) ==
  IF contains_key(c, key)
  THEN LET c1 == access(c, key)
           f == c1.first
           old == c1.entries[f + 1].value
       IN  [cache |-> [c1 EXCEPT !.entries[f + 1].value = value], ret |-> old]
  ELSE LET idx == Len(c.entries)
           c2 == IF c.first # None
                 THEN [c EXCEPT !.entries[c.first + 1].prev = idx]
                 ELSE c
           c3 == [c2 EXCEPT !.entries =
                    Append(@, [key |-> key, value |-> value, next |-> c2.first,
                               prev |-> None])]
           c4 == [c3 EXCEPT !.first = idx]
           c5 == [c4 EXCEPT !.last = IF @ # None THEN @ ELSE c4.first]
           c6 == [c5 EXCEPT !.table = TableInsert(@, key, idx)]
       IN  [cache |-> ensure_room(c6), ret |-> None]

\* insert with a slip: on a present key the old value is taken and the new one
\* is not stored.
insert_forgets_value(c, key, value) ==
  IF contains_key(c, key)
  THEN LET c1 == access(c, key)
           f == c1.first
           old == c1.entries[f + 1].value
       IN  [cache |-> [c1 EXCEPT !.entries[f + 1].value = None], ret |-> old]
  ELSE LET c1 == ensure_room(c)
           idx == Len(c1.entries)
           c2 == IF c1.first # None
                 THEN [c1 EXCEPT !.entries[c1.first + 1].prev = idx]
                 ELSE c1
           c3 == [c2 EXCEPT !.entries =
                    Append(@, [key |-> key, value |-> value, next |-> c2.first,
                               prev |-> None])]
           c4 == [c3 EXCEPT !.first = idx]
           c5 == [c4 EXCEPT !.last = IF @ # None THEN @ ELSE c4.first]
       IN  [cache |-> [c5 EXCEPT !.table = TableInsert(@, key, idx)], ret |-> None]

\* LRUCache::insert: the cache afterwards and the value returned.
insert(c, key, value) ==
  IF contains_key(c, key)
  THEN LET c1 == access(c, key)
           f == c1.first
           old == c1.entries[f + 1].value
       IN  [cache |-> [c1 EXCEPT !.entries[f + 1].value = value], ret |-> old]
  ELSE LET c1 == ensure_room(c)
           idx == Len(c1.entries)
           c2 == IF c1.first # None
                 THEN [c1 EXCEPT !.entries[c1.first + 1].prev = idx]
                 ELSE c1
           c3 == [c2 EXCEPT !.entries =
                    Append(@, [key |-> key, value |-> value, next |-> c2.first,
                               prev |-> None])]
           c4 == [c3 EXCEPT !.first = idx]
           c5 == [c4 EXCEPT !.last = IF @ # None THEN @ ELSE c4.first]
       IN  [cache |-> [c5 EXCEPT !.table = TableInsert(@, key, idx)], ret |-> None]

\* remove with a slip: the key is dropped from the table after the list has
\* been searched for the tail, so the tail's key goes with it.
remove_drops_tail(c, key) ==
  IF key \in DOMAIN c.table
  THEN LET idx == c.table[key]
           c1 == remove_last(c)
           c2 == [c1 EXCEPT !.table = TableRemove(@, key)]
           v == c2.entries[idx + 1].value
       IN  [cache |-> [c2 EXCEPT !.entries[idx + 1].value = None], ret |-> v,
            panic |-> (v = None)]
  ELSE [cache |-> c, ret |-> None, panic |-> FALSE]

\* LRUCache::remove: the cache afterwards, the value returned, and whether the
\* unwrap of the taken value panics.
remove(c, key) ==
  IF key \in DOMAIN c.table
  THEN LET idx == c.table[key]
           c1 == [c EXCEPT !.table = TableRemove(@, key)]
           c2 == remove_from_list(c1, idx)
           v == c2.entries[idx + 1].value
       IN  [cache |-> [c2 EXCEPT !.entries[idx + 1].value = None], ret |-> v,
            panic |-> (v = None)]
  ELSE [cache |-> c, ret |-> None, panic |-> FALSE]

\* LRUCache::peek
peek(c, key) ==
  IF key \in DOMAIN c.table THEN c.entries[c.table[key] + 1].value ELSE None

\* get with a slip: a miss makes room as an insert would.
get_makes_room(c, key) ==
  LET c1 == IF contains_key(c, key) THEN access(c, key) ELSE ensure_room(c)
  IN  [cache |-> c1, ret |-> peek(c1, key)]

\* LRUCache::get: the cache afterwards and the value returned.
get(c, key) ==
  LET c1 == IF contains_key(c, key) THEN access(c, key) ELSE c
  IN  [cache |-> c1, ret |-> peek(c1, key)]

\* LRUCache::get_mut: as get; the caller may then write `w` through the
\* reference it got (w = None: no write).
get_mut(c, key, w) ==
  LET c1 == IF contains_key(c, key) THEN access(c, key) ELSE c
      r == peek(c1, key)
  IN  [cache |-> IF r # None /\ w # None
                 THEN [c1 EXCEPT !.entries[c1.table[key] + 1].value = w]
                 ELSE c1,
       ret |-> r]

\* ------------------------------------------------- where a call can panic

\* i is an index into the arena: entries[i] and entries.get_mut(i).unwrap()
\* succeed.
InArena(c, i) == i >= 0 /\ i < Len(c.entries)

\* remove_from_list panics: the unwrap of entries.get_mut(i), or the indexing
\* of entries[j] or entries[k].
remove_from_list_panics(c, i) ==
  IF ~InArena(c, i) THEN TRUE
  ELSE LET prev == c.entries[i + 1].prev
           next == c.entries[i + 1].next
       IN  \/ prev # None /\ ~InArena(c, prev)
           \/ prev # None /\ next # None /\ ~InArena(c, next)

\* access panics: the unwrap of table.get(key), or remove_from_list.
access_panics(c, key) ==
  IF key \notin DOMAIN c.table THEN TRUE
  ELSE remove_from_list_panics(c, c.table[key])

\* remove_last panics: remove_from_list on `last` (entries[idx] is then read).
remove_last_panics(c) == c.last # None /\ remove_from_list_panics(c, c.last)

\* ensure_room panics.
ensure_room_panics(c) == c.capacity = len(c) /\ remove_last_panics(c)

\* insert panics: access, first.unwrap() and entries[first] on a present key;
\* ensure_room and entries[e] of the old head on an absent one.
insert_panics(c, key) ==
  IF contains_key(c, key)
  THEN IF access_panics(c, key) THEN TRUE
       ELSE LET c1 == access(c, key)
            IN  c1.first = None \/ ~InArena(c1, c1.first)
  ELSE IF ensure_room_panics(c) THEN TRUE
       ELSE LET c1 == ensure_room(c)
            IN  c1.first # None /\ ~InArena(c1, c1.first)

\* remove panics: remove_from_list, or the unwrap of the taken value.
remove_panics(c, key) ==
  IF key \notin DOMAIN c.table THEN FALSE
  ELSE IF remove_from_list_panics(c, c.table[key]) THEN TRUE
  ELSE remove(c, key).panic

\* peek panics: entries[*i].
peek_panics(c, key) == key \in DOMAIN c.table /\ ~InArena(c, c.table[key])

\* get panics: access on a present key, then the lookup of peek.
get_panics(c, key) ==
  IF ~contains_key(c, key) THEN FALSE
  ELSE IF access_panics(c, key) THEN TRUE
  ELSE peek_panics(access(c, key), key)

\* get_mut panics: as get.
get_mut_panics(c, key) ==
  IF ~contains_key(c, key) THEN FALSE
  ELSE IF access_panics(c, key) THEN TRUE
  ELSE LET c1 == access(c, key) IN ~InArena(c1, c1.table[key])

\* ------------------------------------------------- history of uses

\* `key` becomes the most recently used key.
Touch(s, key) == <<key>> \o SelectSeq(s, LAMBDA x : x # key)

\* The values last written, kept for the keys cache c holds.
Latest(l, c) == [k \in Keys |-> IF k \in DOMAIN c.table THEN l[k] ELSE None]

RECURSIVE LastPresent(_, _)
\* The least recently used key of sequence s that is in set `present`, or None.
LastPresent(s, present) ==
  IF s = <<>> THEN None
  ELSE IF s[Len(s)] \in present THEN s[Len(s)]
  ELSE LastPresent(SubSeq(s, 1, Len(s) - 1), present)

\* ------------------------------------------------- calls on the cache

\* A request that has not returned.
NoResponse == [kind |-> "none", value |-> None]

ServeInit ==
  /\ pc = [r \in Reqs |-> "idle"]
  /\ rkey = [r \in Reqs |-> None]
  /\ contents = [r \in Reqs |-> None]
  /\ response = [r \in Reqs |-> NoResponse]
  /\ lock = None
  /\ held = new(0)
  /\ computes = [k \in Keys |-> 0]
  /\ failed = {}
  /\ stored = [k \in Keys |-> None]
  /\ requested = {}
  /\ issued = 0

EngineInit ==
  /\ panicked = FALSE
  /\ recency = <<>>
  /\ latest = [k \in Keys |-> None]

Init ==
  /\ \E cap \in Caps : cache = new(cap)
  /\ EngineInit
  /\ ServeInit

Insert(key, value) ==
  /\ ~panicked
  /\ contains_key(cache, key) \/ Len(cache.entries) < MaxEntries
  /\ cache' = insert(cache, key, value).cache
  /\ recency' = Touch(recency, key)
  /\ latest' = Latest([latest EXCEPT ![key] = value], cache')
  /\ UNCHANGED panicked
  /\ UNCHANGED serveVars

Remove(key) ==
  /\ ~panicked
  /\ cache' = remove(cache, key).cache
  /\ panicked' = remove(cache, key).panic
  /\ latest' = Latest(latest, cache')
  /\ UNCHANGED recency
  /\ UNCHANGED serveVars

\* Peek with a slip: the lookup promotes the entry, as get does.
Peek_promotes(key) ==
  /\ ~panicked
  /\ cache' = get(cache, key).cache
  /\ UNCHANGED <<panicked, recency, latest>>
  /\ UNCHANGED serveVars

Peek(key) ==
  /\ ~panicked
  /\ peek(cache, key) \in Vals \cup {None}
  /\ UNCHANGED <<cache, panicked, recency, latest>>
  /\ UNCHANGED serveVars

ContainsKey(key) ==
  /\ ~panicked
  /\ contains_key(cache, key) \in BOOLEAN
  /\ UNCHANGED <<cache, panicked, recency, latest>>
  /\ UNCHANGED serveVars

Get(key) ==
  /\ ~panicked
  /\ cache' = get(cache, key).cache
  /\ recency' = IF get(cache, key).ret # None THEN Touch(recency, key) ELSE recency
  /\ latest' = Latest(latest, cache')
  /\ UNCHANGED panicked
  /\ UNCHANGED serveVars

GetMut(key, w) ==
  /\ ~panicked
  /\ cache' = get_mut(cache, key, w).cache
  /\ recency' = IF get_mut(cache, key, w).ret # None THEN Touch(recency, key) ELSE recency
  /\ latest' = IF get_mut(cache, key, w).ret # None /\ w # None
                THEN Latest([latest EXCEPT ![key] = w], cache')
                ELSE Latest(latest, cache')
  /\ UNCHANGED panicked
  /\ UNCHANGED serveVars

Next ==
  \/ \E key \in Keys, value \in Vals : Insert(key, value)
  \/ \E key \in Keys : Remove(key)
  \/ \E key \in Keys : Peek(key)
  \/ \E key \in Keys : ContainsKey(key)
  \/ \E key \in Keys : Get(key)
  \/ \E key \in Keys, w \in Vals \cup {None} : GetMut(key, w)

\* Every call of the cache's interface, in any order, on a new cache.
Spec == Init /\ [][Next]_vars

\* insert of a key that is not in the cache.
InsertNew(key, value) ==
  /\ ~contains_key(cache, key)
  /\ Insert(key, value)

NextInsert == \E key \in Keys, value \in Vals : Insert(key, value)

\* Only insert calls (keys may repeat) on a new cache.
SpecInsert == Init /\ [][NextInsert]_vars

NextPlain == \E key \in Keys, value \in Vals : InsertNew(key, value)

\* Only insert calls whose key is not present at the time of the call.
SpecPlain == Init /\ [][NextPlain]_vars

\* --------------------------------------------------------- serve_image

\* Return with a slip: the guard is not dropped, the lock stays taken.
Return_keeps_lock(r, kind, value) ==
  /\ pc' = [pc EXCEPT ![r] = "idle"]
  /\ response' = [response EXCEPT ![r] = [kind |-> kind, value |-> value]]
  /\ contents' = [contents EXCEPT ![r] = None]
  /\ UNCHANGED <<lock, held>>

\* A request returns: its guard and its locals are dropped, and the handler is
\* free for the next request.
Return(r, kind, value) ==
  /\ pc' = [pc EXCEPT ![r] = "idle"]
  /\ response' = [response EXCEPT ![r] = [kind |-> kind, value |-> value]]
  /\ contents' = [contents EXCEPT ![r] = None]
  /\ lock' = IF lock = r THEN None ELSE lock
  /\ held' = IF lock = r THEN new(0) ELSE held

\* A request arrives.  With an empty path or an unknown extension it returns
\* None before it touches the lock; otherwise it reaches state.lock().await.
Request(r, key, valid) ==
  /\ pc[r] = "idle"
  /\ issued < MaxRequests
  /\ issued' = issued + 1
  /\ IF valid
     THEN /\ pc' = [pc EXCEPT ![r] = "waiting"]
          /\ rkey' = [rkey EXCEPT ![r] = key]
          /\ response' = [response EXCEPT ![r] = NoResponse]
          /\ requested' = requested \cup {key}
          /\ UNCHANGED <<lock, held, contents>>
     ELSE /\ Return(r, "invalid", None)
          /\ rkey' = [rkey EXCEPT ![r] = None]
          /\ UNCHANGED requested
  /\ UNCHANGED <<cache, panicked, recency, latest, computes, failed, stored>>

\* Lock with a slip: the request does not wait for the holder to return.
Lock_no_wait(r) ==
  /\ pc[r] = "waiting"
  /\ lock' = r
  /\ held' = cache
  /\ pc' = [pc EXCEPT ![r] = "locked"]
  /\ UNCHANGED <<cache, panicked, recency, latest, rkey, contents, response, computes,
                 failed, stored, requested, issued>>

\* state.lock().await completes: the request holds the cache.
Lock(r) ==
  /\ pc[r] = "waiting"
  /\ lock = None
  /\ lock' = r
  /\ held' = cache
  /\ pc' = [pc EXCEPT ![r] = "locked"]
  /\ UNCHANGED <<cache, panicked, recency, latest, rkey, contents, response, computes, failed,
                 stored, requested, issued>>

\* match cache.contains_key(&requested_fp)
Lookup(r) ==
  /\ pc[r] = "locked"
  /\ pc' = [pc EXCEPT ![r] = IF contains_key(cache, rkey[r]) THEN "hit" ELSE "miss"]
  /\ UNCHANGED <<cache, panicked, recency, latest, rkey, contents, response, lock, held,
                 computes, failed, stored, requested, issued>>

\* The hit branch: cache.get, then respond with the cached image.
Hit(r) ==
  /\ pc[r] = "hit"
  /\ LET g == get(cache, rkey[r])
     IN  /\ cache' = g.cache
         /\ recency' = IF g.ret # None THEN Touch(recency, rkey[r]) ELSE recency
         /\ IF g.ret = None
            THEN Return(r, "panic_cache", None)
            ELSE Return(r, "hit", g.ret)
  /\ latest' = Latest(latest, cache')
  /\ UNCHANGED <<panicked, rkey, computes, failed, stored, requested, issued>>

\* The ways the compute step fails.
Failures == {"notfound", "panic_compute"}

\* ComputeFail with a slip: the failure is cached as an entry of the key.
ComputeFail_caches(r, kind) ==
  /\ pc[r] = "miss"
  /\ computes' = [computes EXCEPT ![rkey[r]] = @ + 1]
  /\ failed' = failed \cup {rkey[r]}
  /\ cache' = insert(cache, rkey[r], 1).cache
  /\ recency' = Touch(recency, rkey[r])
  /\ latest' = Latest([latest EXCEPT ![rkey[r]] = 1], cache')
  /\ Return(r, kind, None)
  /\ UNCHANGED <<panicked, rkey, stored, requested, issued>>

\* The miss branch when the compute step fails: the source file is missing
\* (return None: "notfound"), or opening, resizing or reading the image panics
\* ("panic_compute").  Nothing has touched the cache.
ComputeFail(r, kind) ==
  /\ pc[r] = "miss"
  /\ computes' = [computes EXCEPT ![rkey[r]] = @ + 1]
  /\ failed' = failed \cup {rkey[r]}
  /\ Return(r, kind, None)
  /\ UNCHANGED <<cache, panicked, recency, latest, rkey, stored, requested, issued>>

\* ComputeOk with a slip: the lock is given up while the image is computed.
ComputeOk_unlocked(r, bytes) ==
  /\ pc[r] = "miss"
  /\ computes' = [computes EXCEPT ![rkey[r]] = @ + 1]
  /\ contents' = [contents EXCEPT ![r] = bytes]
  /\ pc' = [pc EXCEPT ![r] = "computed"]
  /\ lock' = None
  /\ UNCHANGED <<cache, panicked, recency, latest, rkey, response, held, failed, stored,
                 requested, issued>>

\* The miss branch when the compute step succeeds: the image exists or is
\* resized, and its bytes are read into `contents`.
ComputeOk(r, bytes) ==
  /\ pc[r] = "miss"
  /\ computes' = [computes EXCEPT ![rkey[r]] = @ + 1]
  /\ contents' = [contents EXCEPT ![r] = bytes]
  /\ pc' = [pc EXCEPT ![r] = "computed"]
  /\ UNCHANGED <<cache, panicked, recency, latest, rkey, response, lock, held, failed, stored,
                 requested, issued>>

\* The end of the miss branch: cache.insert, cache.get, respond.
Store(r) ==
  /\ pc[r] = "computed"
  /\ LET i == insert(cache, rkey[r], contents[r])
         g == get(i.cache, rkey[r])
     IN  /\ cache' = g.cache
         /\ IF g.ret = None
            THEN Return(r, "panic_cache", None)
            ELSE Return(r, "stored", g.ret)
  /\ recency' = Touch(recency, rkey[r])
  /\ latest' = Latest([latest EXCEPT ![rkey[r]] = contents[r]], cache')
  /\ stored' = [stored EXCEPT ![rkey[r]] = contents[r]]
  /\ UNCHANGED <<panicked, rkey, computes, failed, requested, issued>>

NextServe ==
  \/ \E r \in Reqs, key \in Keys, valid \in BOOLEAN : Request(r, key, valid)
  \/ \E r \in Reqs : Lock(r)
  \/ \E r \in Reqs : Lookup(r)
  \/ \E r \in Reqs : Hit(r)
  \/ \E r \in Reqs, kind \in Failures : ComputeFail(r, kind)
  \/ \E r \in Reqs, bytes \in Vals : ComputeOk(r, bytes)
  \/ \E r \in Reqs : Store(r)

\* Concurrent requests through one cache.
SpecServe == Init /\ [][NextServe]_vars

\* The scheduler runs every handler that can take a step, and the mutex
\* hands the lock to every waiter in turn.
FairServe ==
  /\ SpecServe
  /\ \A r \in Reqs :
       /\ SF_vars(Lock(r))
       /\ WF_vars(Lookup(r))
       /\ WF_vars(Hit(r))
       /\ WF_vars(\E bytes \in Vals : ComputeOk(r, bytes))
       /\ WF_vars(Store(r))

\* ------------------------------------------------------------- claims

\* The keys in the cache.
Present == DOMAIN cache.table

\* C1: with capacity >= 1, after every insert call of a sequence of insert calls
\* on a new cache, len() <= capacity.
CapacityBound == cache.capacity >= 1 => len(cache) <= cache.capacity

\* C2: an insert of a key that is not present, made when len() = capacity >= 1,
\* makes exactly one key stop being present: the least recently used one.
StrictLRUVictim ==
  [][\A key \in Keys, value \in Vals :
       (/\ Insert(key, value)
        /\ ~contains_key(cache, key)
        /\ cache.capacity >= 1
        /\ len(cache) = cache.capacity)
       => Present \ DOMAIN cache'.table = {LastPresent(recency, Present)}]_vars

\* C3: with capacity >= 2 and only inserts of keys that are not present, an
\* insert into a full cache evicts exactly the present key inserted earliest,
\* keeps the new key and the other keys, and leaves len() = capacity.
PlainInsertEvictsOldest ==
  [][\A key \in Keys, value \in Vals :
       (/\ InsertNew(key, value)
        /\ cache.capacity >= 2
        /\ len(cache) = cache.capacity)
       => /\ DOMAIN cache'.table =
               (Present \ {LastPresent(recency, Present)}) \cup {key}
          /\ LastPresent(recency, Present) \in Present
          /\ len(cache') = cache'.capacity]_vars

\* C3 witness: a full cache of capacity >= 2 that has evicted twice.
PlainInsertEvicted ==
  /\ cache.capacity >= 2
  /\ len(cache) = cache.capacity
  /\ Len(cache.entries) >= cache.capacity + 2
  /\ \A i \in 1..Len(cache.entries) :
       (cache.entries[i].key \in Present /\ cache.table[cache.entries[i].key] = i - 1)
         <=> i > Len(cache.entries) - cache.capacity

\* C4: with capacity >= 2, after get(k) or get_mut(k) has returned a value, or
\* insert(k, _) has hit a present key k, the next insert of a key that is not
\* present leaves k present.
PromotionProtects ==
  cache.capacity >= 2 =>
    \A k \in Present, j \in Keys, v \in Vals, w \in Vals \cup {None} :
      \A c1 \in {get(cache, k).cache, get_mut(cache, k, w).cache,
                 insert(cache, k, v).cache} :
        ~contains_key(c1, j) => contains_key(insert(c1, j, v).cache, k)

\* The requests that hold the cache lock: between state.lock().await and the
\* return from serve_image.
InFlight == {r \in Reqs : pc[r] \in {"locked", "hit", "miss", "computed"}}

\* C5: while every request carries the same key k and no compute step has
\* failed, the compute step runs at most once; a request on the miss path is the
\* first to hold the lock, and once a request has answered it has run once.
OneComputePerKey ==
  \A k \in Keys :
    (requested = {k} /\ failed = {}) =>
      /\ computes[k] <= 1
      /\ \A r \in Reqs : pc[r] = "miss" => computes[k] = 0
      /\ \A r \in Reqs : pc[r] = "computed" => computes[k] = 1
      /\ \A r \in Reqs : response[r].kind \in {"hit", "stored"} => computes[k] = 1

\* C5 witness: two requests for the same key have answered, one from the
\* compute step and one from the cache, and the compute step ran once.
SameKeyComputedOnce ==
  \E k \in Keys, r1, r2 \in Reqs :
    /\ requested = {k}
    /\ failed = {}
    /\ computes[k] = 1
    /\ response[r1].kind = "stored"
    /\ response[r2].kind = "hit"
    /\ response[r2].value = response[r1].value

\* C6: at most one request is between acquiring the lock and returning, it is
\* the holder of the lock, and while a request is past its contains_key check
\* no step of another request changes the cache.
CoarseLock ==
  /\ [](/\ Cardinality(InFlight) <= 1
        /\ \A r \in InFlight : lock = r)
  /\ [][\A r \in Reqs :
          (pc[r] \in {"hit", "miss", "computed"} /\ pc'[r] = pc[r])
            => cache' = cache]_vars

\* C6 witness: one request is in its compute step on one key while another
\* waits for the lock with another key.
ComputeWhileOtherWaits ==
  \E r1, r2 \in Reqs :
    /\ pc[r1] = "computed"
    /\ pc[r2] = "waiting"
    /\ rkey[r1] # rkey[r2]

\* C7: a failed compute step leaves the cache as it was when the request took
\* the lock, with the key absent; and a key whose compute step has never
\* succeeded is not in the cache, so the next request for it computes again.
NoCachingOnFailure ==
  /\ [](\A k \in Keys : stored[k] = None => ~contains_key(cache, k))
  /\ [][\A r \in Reqs, kind \in Failures :
          ComputeFail(r, kind)
            => /\ cache' = held
               /\ cache' = cache
               /\ ~contains_key(cache', rkey[r])]_vars

\* C7 witness: the compute step of a key has failed, it has run again for a
\* later request, and the key is still not cached.
FailedThenComputedAgain ==
  \E k \in failed, r \in Reqs :
    /\ computes[k] >= 2
    /\ rkey[r] = k
    /\ response[r].kind \in Failures
    /\ ~contains_key(cache, k)

\* C8: a request that is not in flight does not hold the lock, a key whose
\* compute step failed and never succeeded stays absent, some step is possible
\* whenever a request has not returned, and under fair scheduling every request
\* that waits for the lock acquires it and returns.
LockReleasedAndProgress ==
  /\ [](lock = None \/ lock \in InFlight)
  /\ [](\A k \in failed : stored[k] = None => ~contains_key(cache, k))
  /\ []((\E r \in Reqs : pc[r] # "idle") => ENABLED NextServe)
  /\ \A r \in Reqs : (pc[r] = "waiting") ~> (pc[r] = "idle")

\* C8 witness: a compute step has failed, the lock is free again, and another
\* request is waiting for it.
WaiterAfterFailure ==
  \E r1, r2 \in Reqs :
    /\ response[r1].kind \in Failures
    /\ pc[r1] = "idle"
    /\ lock = None
    /\ pc[r2] = "waiting"

\* C9: as long as no more distinct keys have been requested than the cache
\* holds, a key that a request has stored stays cached with that value, no
\* request runs the compute step for it again, and every hit returns it.
IdempotentHit ==
  Cardinality(requested) <= cache.capacity =>
    /\ \A k \in Keys :
         stored[k] # None => contains_key(cache, k) /\ peek(cache, k) = stored[k]
    /\ \A r \in Reqs :
         /\ pc[r] \in {"miss", "computed"} => stored[rkey[r]] = None
         /\ response[r].kind = "hit" => response[r].value = stored[rkey[r]]
         /\ response[r].kind # "panic_cache"

\* C9 witness: a request stored a key, a request for another key was served,
\* and a later request for the first key was answered from the cache.
HitAfterOtherKey ==
  \E r1, r2 \in Reqs, k \in Keys :
    /\ r1 # r2
    /\ Cardinality(requested) = 2
    /\ Cardinality(requested) <= cache.capacity
    /\ response[r1].kind = "stored"
    /\ rkey[r1] = k
    /\ response[r2].kind = "hit"
    /\ rkey[r2] = k
    /\ \A j \in requested : stored[j] # None

\* C10: in every reachable state, lookups of a present key return the value
\* last written under it; insert(k, v) returns that value (None for an absent
\* k), keeps len() when k was present, and afterwards get(k) and peek(k)
\* return v.
InsertReturnsPrevious ==
  /\ \A k \in Present :
       /\ latest[k] \in Vals
       /\ peek(cache, k) = latest[k]
       /\ get(cache, k).ret = latest[k]
       /\ \A w \in Vals \cup {None} : get_mut(cache, k, w).ret = latest[k]
  /\ \A k \in Keys, v \in Vals :
       LET i == insert(cache, k, v)
       IN  /\ i.ret = IF k \in Present THEN latest[k] ELSE None
           /\ k \in Present => len(i.cache) = len(cache)
           /\ peek(i.cache, k) = v
           /\ get(i.cache, k).ret = v

\* C10 witness: a present key that is not at the head of the list holds a value,
\* another present key holds another value, and an insert on the first key
\* returns its old value.
InsertOverOldValue ==
  \E k, j \in Present :
    /\ k # j
    /\ cache.first # cache.table[k]
    /\ latest[k] # latest[j]
    /\ \E v \in Vals : v # latest[k] /\ insert(cache, k, v).ret = latest[k]

\* The cache right after insert(a, _) and insert(b, _) on a new cache.
TwoInserted(a, b) ==
  /\ Len(cache.entries) = 2
  /\ cache.entries[1].key = a /\ cache.entries[1].prev = 1 /\ cache.entries[1].next = None
  /\ cache.entries[2].key = b /\ cache.entries[2].prev = None /\ cache.entries[2].next = 0
  /\ cache.first = 1
  /\ cache.last = 0
  /\ cache.table = TableInsert(TableInsert(new(0).table, a, 0), b, 1)
  /\ cache.entries[1].value # None
  /\ cache.entries[2].value # None

\* C11: peek(k) and contains_key(k) leave the whole cache unchanged, so a later
\* insert evicts what it would have evicted without them; with capacity 2 and
\* A then B inserted, peek(A) followed by insert(C) evicts A.
PeekDoesNotPromote ==
  /\ [][\A k \in Keys : (Peek(k) \/ ContainsKey(k)) => cache' = cache]_vars
  /\ [][\A a, b, c \in Keys, v \in Vals :
          (/\ cache.capacity = 2
           /\ a # b
           /\ TwoInserted(a, b)
           /\ Peek(a)
           /\ c \notin Present')
            => DOMAIN insert(cache', c, v).cache.table = {b, c}]_vars

\* C11 witness: capacity 2, A then B inserted, peek(A) returns A's value and
\* the insert of a third key evicts A.
PeekThenInsertEvictsPeeked ==
  \E a, b, c \in Keys :
    /\ cache.capacity = 2
    /\ a # b
    /\ TwoInserted(a, b)
    /\ peek(cache, a) \in Vals
    /\ c \notin Present
    /\ DOMAIN insert(cache, c, 1).cache.table = {b, c}

\* C12: remove(k) on an absent key returns None and changes nothing; on a
\* present key it returns the value last stored under k, after which k is
\* absent, len() is one less, and every other key keeps its presence and value.
RemoveTakesOneKey ==
  \A k \in Keys :
    LET r == remove(cache, k)
    IN  IF k \notin Present
        THEN r.ret = None /\ r.cache = cache
        ELSE /\ r.ret = latest[k]
             /\ r.ret \in Vals
             /\ ~contains_key(r.cache, k)
             /\ len(r.cache) = len(cache) - 1
             /\ \A j \in Keys \ {k} :
                  /\ contains_key(r.cache, j) = contains_key(cache, j)
                  /\ peek(r.cache, j) = peek(cache, j)

\* C12 witness: a remove has just taken a key out of a cache that still holds
\* another key with its value.
RemovedOneOfTwo ==
  \E k \in Keys, j \in Present :
    /\ k # j
    /\ k \notin Present
    /\ \E i \in 1..Len(cache.entries) :
         cache.entries[i].key = k /\ cache.entries[i].value = None
    /\ peek(cache, j) = latest[j]
    /\ remove(cache, k).cache = cache

\* C13: in a cache of capacity 0 every insert(k, v) leaves the cache holding
\* nothing: len() is 0, is_empty() is true and contains_key(k) is false.
ZeroCapacityHoldsNothing ==
  [][\A k \in Keys, v \in Vals :
       (cache.capacity = 0 /\ Insert(k, v))
         => /\ len(cache') = 0
            /\ is_empty(cache')
            /\ ~contains_key(cache', k)]_vars

\* C14: whatever the capacity and the calls made so far, no call panics:
\* every unwrap meets a Some and every arena index is below the arena length.
NoCallPanics ==
  /\ ~panicked
  /\ \A k \in Keys :
       /\ ~insert_panics(cache, k)
       /\ ~remove_panics(cache, k)
       /\ ~peek_panics(cache, k)
       /\ ~get_panics(cache, k)
       /\ ~get_mut_panics(cache, k)
  /\ len(cache) \in Nat
  /\ is_empty(cache) \in BOOLEAN
  /\ is_full(cache) \in BOOLEAN

\* C14 witness: a capacity-0 cache emptied by remove calls, with used slots
\* in the arena and a head left from before, on which an insert, a remove and
\* a lookup all return.
EmptiedZeroCapacityCache ==
  /\ cache.capacity = 0
  /\ is_empty(cache)
  /\ Len(cache.entries) >= 2
  /\ cache.first # None
  /\ \E k \in Keys : insert(cache, k, 1).ret = None /\ get(cache, k).ret = None

\* C15: get(k) and get_mut(k) for a key that is not present return None and
\* leave the index, the entries, the head and the tail as they were.
AbsentLookupIsNoOp ==
  \A k \in Keys \ Present :
    /\ get(cache, k) = [cache |-> cache, ret |-> None]
    /\ \A w \in Vals \cup {None} :
         get_mut(cache, k, w) = [cache |-> cache, ret |-> None]

\* C15 witness: a full cache with a stale slot of an absent key in its arena;
\* the lookup of that key returns None.
AbsentKeyWithStaleSlot ==
  \E k \in Keys \ Present :
    /\ is_full(cache)
    /\ cache.capacity > 0
    /\ \E i \in 1..Len(cache.entries) : cache.entries[i].key = k
    /\ get(cache, k).ret = None
    /\ get_mut(cache, k, 1).ret = None

RECURSIVE WalkNext(_, _, _)
\* The slots met from slot i along `next`, at most `fuel` of them.
WalkNext(c, i, fuel) ==
  IF i = None \/ fuel = 0 THEN <<>>
  ELSE <<i>> \o WalkNext(c, c.entries[i + 1].next, fuel - 1)

RECURSIVE WalkPrev(_, _, _)
\* The slots met from slot i along `prev`, at most `fuel` of them.
WalkPrev(c, i, fuel) ==
  IF i = None \/ fuel = 0 THEN <<>>
  ELSE <<i>> \o WalkPrev(c, c.entries[i + 1].prev, fuel - 1)

\* The slots of the present keys, from the most to the least recently used.
LiveSlots ==
  LET used == SelectSeq(recency, LAMBDA k : k \in Present)
  IN  [j \in 1..Len(used) |-> cache.table[used[j]]]

\* C16: walking from first along next visits exactly the slots of the keys in
\* the index, each once, from the most to the least recently used, and walking
\* from last along prev visits them in the reverse order.
ListMatchesLiveSet ==
  LET fuel == Len(cache.entries) + 1
      down == WalkNext(cache, cache.first, fuel)
      up == WalkPrev(cache, cache.last, fuel)
  IN  /\ down = LiveSlots
      /\ Len(up) = Len(LiveSlots)
      /\ \A j \in 1..Len(up) : up[j] = LiveSlots[Len(up) + 1 - j]

\* C17: first is None exactly when the cache is empty, and so is last.
HeadAndTailTrackEmptiness ==
  /\ (cache.first = None) <=> (len(cache) = 0)
  /\ (cache.last = None) <=> (len(cache) = 0)

\* C18: after remove(k) of a present key whose slot is i, neither first nor
\* last is i and no entry of a key still in the index has prev or next i.
RemoveExcisesEntry ==
  \A k \in Present :
    LET i == cache.table[k]
        c == remove(cache, k).cache
    IN  /\ c.first # i
        /\ c.last # i
        /\ \A j \in DOMAIN c.table :
             /\ c.entries[c.table[j] + 1].prev # i
             /\ c.entries[c.table[j] + 1].next # i

\* The number of arena entries that hold a value.
Holding(c) == Cardinality({i \in 1..Len(c.entries) : c.entries[i].value # None})

\* C19: the number of arena entries whose value is Some equals len(); an entry
\* evicted by insert no longer holds its value.
DiscardedValuesAreDropped == Holding(cache) = len(cache)

\* C20: a present key stops being present only through remove of that key, or
\* through an insert of an absent key made while len() = capacity; no get,
\* get_mut, peek, contains_key, insert of a present key or insert of a new key
\* below capacity makes a key disappear.
OnlyRemoveOrFullInsertDrops ==
  [][(Present \ DOMAIN cache'.table # {})
       => \/ \E k \in Present :
               Remove(k) /\ Present \ DOMAIN cache'.table = {k}
          \/ \E k \in Keys \ Present, v \in Vals :
               Insert(k, v) /\ len(cache) = cache.capacity]_vars

\* C20 witness: a full cache that has evicted: a slot of its arena carries a
\* key that is no longer present and still holds the evicted value.
FullAfterEviction ==
  /\ cache.capacity > 0
  /\ len(cache) = cache.capacity
  /\ \E i \in 1..Len(cache.entries) :
       /\ cache.entries[i].key \notin Present
       /\ cache.entries[i].value # None

\* C21: the handler never reaches its cache-retrieval panics: in the hit
\* branch get(k) returns a value, in the miss branch get(k) right after
\* insert(k, v) returns v, and neither call panics inside the cache, whatever
\* the capacity and the interleaving of requests.
NoCacheRetrievalPanic ==
  \A r \in Reqs :
    /\ response[r].kind # "panic_cache"
    /\ pc[r] = "hit" =>
         /\ ~get_panics(cache, rkey[r])
         /\ get(cache, rkey[r]).ret \in Vals
    /\ pc[r] = "computed" =>
         LET i == insert(cache, rkey[r], contents[r])
         IN  /\ ~contains_key(cache, rkey[r])
             /\ ~insert_panics(cache, rkey[r])
             /\ ~get_panics(i.cache, rkey[r])
             /\ get(i.cache, rkey[r]).ret = contents[r]

\* C21 witness: in a cache of capacity 1 that has evicted a key, one request
\* has answered from the miss branch and another from the hit branch.
StoredAndHitAfterEviction ==
  /\ cache.capacity = 1
  /\ \E i \in 1..Len(cache.entries) : cache.entries[i].key \notin Present
  /\ \E r1, r2 \in Reqs :
       /\ response[r1].kind = "stored"
       /\ response[r2].kind = "hit"
       /\ response[r2].value = response[r1].value

====
